---- MODULE Spec2Model ----
(***************************************************************************)
(* GetSocial (src/app.py): the post approval state machine, the workflow   *)
(* engine and the queue stage, as a state machine over the database rows.  *)
(* One action per request handler; a handler's uncommitted session changes *)
(* are dropped when it ends with an unhandled exception.                   *)
(***************************************************************************)
EXTENDS Integers, Sequences, FiniteSets, TLC

VARIABLES clients, workflows, posts, approvals, today, result, revisions, edits

vars == <<clients, workflows, posts, approvals, today, result, revisions, edits>>

\* The PostRevision rows, and the edit requests that have written their snapshot
\* and not yet their new fields
editVars == <<revisions, edits>>

---------------------------------------------------------------------------
(* Bounds of the model *)

MaxPosts == 1

MaxWorkflows == 1

MaxDay == 1

---------------------------------------------------------------------------
(* Users (rows of the user table) *)

UserIds == {1, 2}

username == [u \in UserIds |-> IF u = 1 THEN "alice" ELSE "bob"]

NoUser == 0

\* User.query.filter_by(username=username).first()
UserByUsername(name) ==
    IF \E u \in UserIds : username[u] = name
    THEN CHOOSE u \in UserIds : username[u] = name
    ELSE NoUser

---------------------------------------------------------------------------
(* Dates: a date is a day number, NoneDate is Python's None *)

NoneDate == -1

DateTexts == <<"2024-01-01", "2024-01-02", "2024-01-03">>

\* datetime.strptime(s, '%Y-%m-%d').date(): the day a text denotes, or ValueError
strptime(s) ==
    IF \E i \in DOMAIN DateTexts : DateTexts[i] = s
    THEN [err |-> "ok", date |-> (CHOOSE i \in DOMAIN DateTexts : DateTexts[i] = s) - 1]
    ELSE [err |-> "ValueError", date |-> NoneDate]

\* Post.created_at's column default is evaluated once, when the class is defined
ProcessStartDay == 0

(* Name resolution: line 5 binds the name datetime to the module, line 6   *)
(* rebinds it to the class datetime.datetime; the last binding is the one  *)
(* the handlers see.                                                       *)
datetimeBindings == <<"module:datetime", "class:datetime">>

datetimeName == datetimeBindings[Len(datetimeBindings)]

\* getattr(obj, attr) as far as the handlers use it
GetAttr(obj, attr) ==
    CASE obj = "module:datetime" /\ attr = "datetime"  -> "class:datetime"
      [] obj = "module:datetime" /\ attr = "date"      -> "class:date"
      [] obj = "module:datetime" /\ attr = "timedelta" -> "class:timedelta"
      [] obj = "class:datetime"  /\ attr = "date"      -> "method:datetime.date"
      [] obj = "class:datetime"  /\ attr = "strptime"  -> "function"
      [] obj = "class:datetime"  /\ attr = "now"       -> "function"
      [] obj = "class:datetime"  /\ attr = "today"     -> "function"
      [] obj = "class:date"      /\ attr = "today"     -> "function"
      [] OTHER -> "AttributeError"

\* datetime.timedelta, as line 146 evaluates it
timedeltaLookup == GetAttr(datetimeName, "timedelta")

\* datetime.date.today, as line 359 evaluates it
dateTodayLookup ==
    LET d == GetAttr(datetimeName, "date")
    IN IF d = "AttributeError" THEN d ELSE GetAttr(d, "today")

---------------------------------------------------------------------------
(* Workflow components: JSON objects are records, a missing key is a       *)
(* missing field.                                                          *)

HasKey(obj, key) == key \in DOMAIN obj

Opt(n, v) == [name |-> n, value |-> v]

Action(n, options) == [type |-> "action", name |-> n, options |-> options]

Trigger(n) == [type |-> "trigger", name |-> n, options |-> <<>>]

AssignComp(names) == Action("Assign Approvers", <<Opt("approvers", names)>>)

DeadlineComp(days) == Action("Set Deadline", <<Opt("days", days)>>)

\* json.dumps(data['components']) of a JSON array, and of a JSON value that is none
JsonList(items) == [kind |-> "list", items |-> items]

JsonScalar == [kind |-> "scalar", items |-> <<>>]

\* The workflow designs a caller saves
Designs ==
    { JsonList(<<AssignComp(<<"alice", "bob", "alice">>)>>),
      JsonList(<<AssignComp(<<"alice", "ghost", "bob">>), Action("Queue Post", <<>>)>>),
      JsonList(<<AssignComp(<<"bob">>), DeadlineComp("3")>>),
      JsonList(<<Trigger("Post Approved"), AssignComp(<<"bob">>)>>),
      JsonList(<<AssignComp(<<"alice">>), Action("Queue Post", <<>>)>>),
      JsonList(<<Trigger("Post Approved"), Action("Post Now", <<>>)>>),
      JsonList(<<AssignComp(<<"alice">>), Action("Queue Post", <<>>),
                 [name |-> "Post Approved"]>>),
      JsonList(<<Action("Post Approved", <<>>), Action("Queue Post", <<>>),
                 [type |-> "action", name |-> "Assign Approvers"]>>),
      JsonScalar }

NoWorkflow == 0

---------------------------------------------------------------------------
(* Uploaded file names are sequences of characters *)

NoneText == "None"

NoneFile == <<>>

AbsentUpload == <<"<absent>">>

ALLOWED_EXTENSIONS == {<<"p","n","g">>, <<"j","p","g">>, <<"j","p","e","g">>,
                       <<"g","i","f">>, <<"m","p","4">>}

\* str.lower(), on the characters the model uses
LowerChar(ch) ==
    CASE ch = "P" -> "p" [] ch = "N" -> "n" [] ch = "G" -> "g" [] ch = "J" -> "j"
      [] ch = "E" -> "e" [] ch = "I" -> "i" [] ch = "F" -> "f" [] ch = "M" -> "m"
      [] ch = "X" -> "x" [] OTHER -> ch

Lower(name) == [i \in DOMAIN name |-> LowerChar(name[i])]

\* filename.rsplit('.', 1)[1]: what follows the last dot
AfterLastDot(name) ==
    LET last == CHOOSE i \in DOMAIN name :
                    name[i] = "." /\ \A j \in DOMAIN name : name[j] = "." => j <= i
    IN SubSeq(name, last + 1, Len(name))

allowed_file(filename) ==
    /\ \E i \in DOMAIN filename : filename[i] = "."
    /\ Lower(AfterLastDot(filename)) \in ALLOWED_EXTENSIONS

\* os.path.join(app.config['UPLOAD_FOLDER'], secure_filename(file.filename)), for
\* names made of ASCII letters, digits and inner dots, which secure_filename keeps
UploadPath(filename) == <<"uploads", "/">> \o filename

---------------------------------------------------------------------------
(* The database session of one request: the rows as the handler sees them, *)
(* and the exception it has raised, if any.                                *)

Session(ps, rows, cs) == [posts |-> ps, approvals |-> rows, clients |-> cs, err |-> "ok"]

Raise(s, exc) == [s EXCEPT !.err = exc]

\* Approval.query.filter_by(post_id=p, user_id=u).first() finds a row
ApprovalExists(rows, p, u) ==
    \E i \in DOMAIN rows : rows[i].post_id = p /\ rows[i].user_id = u

FirstApproval(rows, p, u) ==
    CHOOSE i \in DOMAIN rows :
        /\ rows[i].post_id = p /\ rows[i].user_id = u
        /\ \A j \in DOMAIN rows : (rows[j].post_id = p /\ rows[j].user_id = u) => i <= j

NewApproval(p, u) == [post_id |-> p, user_id |-> u, status |-> "pending"]

\* next((opt['value'] for opt in options if opt['name'] == n), ...): the index of
\* the first option named n, 0 when there is none
OptionIndex(options, n) ==
    IF \E i \in DOMAIN options : options[i].name = n
    THEN CHOOSE i \in DOMAIN options :
            options[i].name = n /\ \A j \in DOMAIN options : options[j].name = n => i <= j
    ELSE 0

\* AssignOne without the lookup of an existing Approval before the insert
AssignOneNoCheck(s, p, name) ==
    LET user == UserByUsername(name)
        c    == s.posts[p].client_id
        s1   == IF user # NoUser /\ user \notin s.clients[c].approvers
                THEN [s EXCEPT !.clients[c].approvers = @ \cup {user}]
                ELSE s
    IN IF user = NoUser
       THEN Raise(s1, "AttributeError")
       ELSE [s1 EXCEPT !.approvals = Append(@, NewApproval(p, user))]

\* One iteration of the loop over approver_usernames
AssignOne(s, p, name) ==
    LET user == UserByUsername(name)
        c    == s.posts[p].client_id
        s1   == IF user # NoUser /\ user \notin s.clients[c].approvers
                THEN [s EXCEPT !.clients[c].approvers = @ \cup {user}]
                ELSE s
    IN IF user = NoUser
       THEN Raise(s1, "AttributeError")
       ELSE IF ~ApprovalExists(s1.approvals, p, user)
            THEN [s1 EXCEPT !.approvals = Append(@, NewApproval(p, user))]
            ELSE s1

RECURSIVE AssignApprovers(_, _, _)
AssignApprovers(s, p, names) ==
    IF names = <<>> \/ s.err # "ok"
    THEN s
    ELSE AssignApprovers(AssignOne(s, p, Head(names)), p, Tail(names))

DefaultDays == 7

\* int(days), on the texts the model uses
IntOf(text) ==
    CASE text = "1" -> [err |-> "ok", n |-> 1]
      [] text = "3" -> [err |-> "ok", n |-> 3]
      [] text = "7" -> [err |-> "ok", n |-> 7]
      [] OTHER -> [err |-> "ValueError", n |-> 0]

\* days = next(..., 7); days = int(days) if days else 7
DeadlineDays(options) ==
    LET i == OptionIndex(options, "days")
    IN IF i = 0 \/ options[i].value = ""
       THEN [err |-> "ok", n |-> DefaultDays]
       ELSE IntOf(options[i].value)

SetDeadline(s, p, options) ==
    LET days == DeadlineDays(options)
    IN IF days.err # "ok" THEN Raise(s, days.err)
       ELSE IF timedeltaLookup = "AttributeError" THEN Raise(s, "AttributeError")
       ELSE [s EXCEPT !.posts[p].schedule_date = s.posts[p].created_at + days.n]

\* The body of the loop over components
ApplyComponent(s, p, comp) ==
    IF ~HasKey(comp, "type") THEN Raise(s, "KeyError")
    ELSE IF comp.type # "action" THEN s
    ELSE IF ~HasKey(comp, "name") THEN Raise(s, "KeyError")
    ELSE IF comp.name = "Assign Approvers" /\ ~HasKey(comp, "options") THEN Raise(s, "KeyError")
    ELSE IF comp.name = "Assign Approvers" /\ comp.options # <<>>
         THEN LET i == OptionIndex(comp.options, "approvers")
              IN AssignApprovers(s, p, IF i = 0 THEN <<>> ELSE comp.options[i].value)
    ELSE IF comp.name = "Set Deadline" /\ ~HasKey(comp, "options") THEN Raise(s, "KeyError")
    ELSE IF comp.name = "Set Deadline" /\ comp.options # <<>>
         THEN SetDeadline(s, p, comp.options)
    ELSE IF comp.name = "Queue Post" THEN [s EXCEPT !.posts[p].status = "queued"]
    ELSE IF comp.name = "Post Now" THEN [s EXCEPT !.posts[p].status = "posted"]
    ELSE s

\* ApplyComponents leaving the loop at the first component that is not an action
RECURSIVE ApplyComponentsUntilOther(_, _, _)
ApplyComponentsUntilOther(s, p, comps) ==
    IF comps = <<>> \/ s.err # "ok"
    THEN s
    ELSE IF HasKey(Head(comps), "type") /\ Head(comps).type # "action"
    THEN s
    ELSE ApplyComponentsUntilOther(ApplyComponent(s, p, Head(comps)), p, Tail(comps))

RECURSIVE ApplyComponents(_, _, _)
ApplyComponents(s, p, comps) ==
    IF comps = <<>> \/ s.err # "ok"
    THEN s
    ELSE ApplyComponents(ApplyComponent(s, p, Head(comps)), p, Tail(comps))

\* apply_workflow(post, workflow); wf is a workflow id, NoWorkflow is None
apply_workflow(s, p, wf) ==
    IF wf = NoWorkflow THEN s
    ELSE LET components == workflows[wf].components
         IN IF components.kind # "list"
            THEN Raise(s, "TypeError")
            ELSE ApplyComponents(s, p, components.items)

\* AfterRequest with every change of the session written through as it is made
AfterRequestKeepsSession(committed, s) == s

\* The request ends: what the handler committed stays; with an exception raised the
\* final commit is never reached and the session's pending changes are dropped
AfterRequest(committed, s) == IF s.err = "ok" THEN s ELSE Raise(committed, s.err)

\* any(comp['name'] == 'Post Approved' for comp in json.loads(workflow.components))
RECURSIVE AnyPostApproved(_)
AnyPostApproved(comps) ==
    IF comps = <<>> THEN "no"
    ELSE IF ~HasKey(Head(comps), "name") THEN "KeyError"
    ELSE IF Head(comps).name = "Post Approved" THEN "yes"
    ELSE AnyPostApproved(Tail(comps))

PostApprovedTrigger(wf) ==
    IF wf = NoWorkflow THEN "no"
    ELSE IF workflows[wf].components.kind # "list" THEN "TypeError"
    ELSE AnyPostApproved(workflows[wf].components.items)

\* DefaultApprovals leaving the loop after the first approver
DefaultApprovalsFirstOnly(rows, p, us) ==
    IF us = {} THEN rows
    ELSE Append(rows, NewApproval(p, CHOOSE x \in us : \A y \in us : x <= y))

\* for approver in client.approvers: add Approval(post_id, user_id)
RECURSIVE DefaultApprovals(_, _, _)
DefaultApprovals(rows, p, us) ==
    IF us = {} THEN rows
    ELSE LET u == CHOOSE x \in us : \A y \in us : x <= y
         IN DefaultApprovals(Append(rows, NewApproval(p, u)), p, us \ {u})

---------------------------------------------------------------------------
(* The request handlers *)

Outcome(op, err, p, u) == [op |-> op, err |-> err, post |-> p, user |-> u]

NoPost == 0

Fail(op, err, p, u) ==
    /\ result' = Outcome(op, err, p, u)
    /\ UNCHANGED <<clients, workflows, posts, approvals, today>>
    /\ UNCHANGED editVars

NewPost(c, content, caption, file_path, schedule_date) ==
    [client_id |-> c, content |-> content, caption |-> caption, file_path |-> file_path,
     schedule_date |-> schedule_date, status |-> "pending", created_at |-> ProcessStartDay]

\* The part of client_posts after the post is added to the session: the active
\* workflow is applied, or one Approval is added per client approver
AttachApprovals(s, p, client) ==
    IF client.active_workflow_id # NoWorkflow
    THEN apply_workflow(s, p, client.active_workflow_id)
    ELSE [s EXCEPT !.approvals = DefaultApprovals(@, p, client.approvers)]

\* POST /clients/<client_id>/posts
CreatePost(u, c, content, caption, schedule_date_str, upload) ==
    /\ Len(posts) < MaxPosts
    /\ LET client == clients[c]
           sd == IF schedule_date_str # ""
                 THEN strptime(schedule_date_str)
                 ELSE [err |-> "ok", date |-> NoneDate]
           file_path == IF upload = AbsentUpload THEN NoneFile ELSE UploadPath(upload)
           p == Len(posts) + 1
           s0 == Session(Append(posts, NewPost(c, content, caption, file_path, sd.date)),
                         approvals, clients)
           s1 == AttachApprovals(s0, p, client)
           final == AfterRequest(Session(posts, approvals, clients), s1)
       IN IF client.user_id # u THEN Fail("createPost", "Unauthorized", NoPost, u)
          ELSE IF sd.err # "ok" THEN Fail("createPost", sd.err, NoPost, u)
          ELSE IF upload # AbsentUpload /\ ~(upload # <<>> /\ allowed_file(upload))
               THEN Fail("createPost", "InvalidFileType", NoPost, u)
          ELSE /\ posts' = final.posts
               /\ approvals' = final.approvals
               /\ clients' = final.clients
               /\ result' = Outcome("createPost", final.err,
                                    IF final.err = "ok" THEN p ELSE NoPost, u)
               /\ UNCHANGED <<workflows, today>>
               /\ UNCHANGED editVars

\* Decide writing the decision to every row of the post
DecideAllRows(rows, i, action) ==
    [j \in DOMAIN rows |->
        IF rows[j].post_id = rows[i].post_id
        THEN [rows[j] EXCEPT !.status = IF action = "approve" THEN "approved"
                                        ELSE IF action = "reject" THEN "rejected" ELSE @]
        ELSE rows[j]]

\* approval.status = 'approved' / 'rejected'; db.session.commit()
Decide(rows, i, action) ==
    [rows EXCEPT ![i].status = IF action = "approve" THEN "approved"
                               ELSE IF action = "reject" THEN "rejected" ELSE @]

\* AllApproved with any() in place of all()
AnyApproved(rows, p) ==
    \E j \in DOMAIN rows : rows[j].post_id = p /\ rows[j].status = "approved"

\* all(a.status == 'approved' for a in all_approvals)
AllApproved(rows, p) ==
    \A j \in DOMAIN rows : rows[j].post_id = p => rows[j].status = "approved"

\* The recomputation after a decision: the session after post.status = 'approved'
\* and the re-invocation of the engine when the workflow names "Post Approved"
Recompute(s, p) ==
    LET s1 == [s EXCEPT !.posts[p].status = "approved"]
        wf == s.clients[s.posts[p].client_id].active_workflow_id
        trigger == PostApprovedTrigger(wf)
    IN IF trigger = "yes" THEN apply_workflow(s1, p, wf)
       ELSE IF trigger = "no" THEN s1
       ELSE Raise(s1, trigger)

\* POST /posts/<post_id>
RecordApproval(u, p, action) ==
    /\ p \in DOMAIN posts
    /\ IF ~ApprovalExists(approvals, p, u)
       THEN Fail("recordApproval", "NotAnApprover", p, u)
       ELSE LET rows == Decide(approvals, FirstApproval(approvals, p, u), action)
                committed == Session(posts, rows, clients)
                final == IF AllApproved(rows, p)
                         THEN AfterRequest(committed, Recompute(committed, p))
                         ELSE committed
            IN /\ posts' = final.posts
               /\ approvals' = final.approvals
               /\ clients' = final.clients
               /\ result' = Outcome("recordApproval", final.err, p, u)
               /\ UNCHANGED <<workflows, today>>
               /\ UNCHANGED editVars

\* post.schedule_date and post.schedule_date < datetime.date.today()
DeadlineCheck(schedule_date) ==
    IF schedule_date = NoneDate THEN "no"
    ELSE IF dateTodayLookup = "AttributeError" THEN "AttributeError"
    ELSE IF schedule_date < today THEN "yes" ELSE "no"

\* The gate of action 'queue'
QueueGate(post) ==
    IF post.status # "approved" THEN "NotApproved"
    ELSE LET late == DeadlineCheck(post.schedule_date)
         IN IF late = "yes" THEN "DeadlinePassed"
            ELSE IF late = "no" THEN "ok" ELSE late

\* POST /queue, action 'queue' (any logged-in user; the handler reads no identity)
QueuePost(p) ==
    /\ p \in DOMAIN posts
    /\ LET gate == QueueGate(posts[p])
       IN IF gate # "ok" THEN Fail("queuePost", gate, p, NoUser)
          ELSE /\ posts' = [posts EXCEPT ![p].status = "queued"]
               /\ result' = Outcome("queuePost", "ok", p, NoUser)
               /\ UNCHANGED <<clients, workflows, approvals, today>>
               /\ UNCHANGED editVars

\* PostNowGate without the status test
PostNowGateOpen(post) == "ok"

\* The gate of action 'post_now'
PostNowGate(post) == IF post.status # "queued" THEN "NotQueued" ELSE "ok"

\* POST /queue, action 'post_now'
PostNow(p) ==
    /\ p \in DOMAIN posts
    /\ LET gate == PostNowGate(posts[p])
       IN IF gate # "ok" THEN Fail("postNow", gate, p, NoUser)
          ELSE /\ posts' = [posts EXCEPT ![p].status = "posted"]
               /\ result' = Outcome("postNow", "ok", p, NoUser)
               /\ UNCHANGED <<clients, workflows, approvals, today>>
               /\ UNCHANGED editVars

\* POST /save_workflow/<client_id>
SaveWorkflow(u, c, components) ==
    /\ Len(workflows) < MaxWorkflows
    /\ IF clients[c].user_id # u THEN Fail("saveWorkflow", "Unauthorized", NoPost, u)
       ELSE /\ workflows' = Append(workflows, [client_id |-> c, components |-> components])
            /\ result' = Outcome("saveWorkflow", "ok", NoPost, u)
            /\ UNCHANGED <<clients, posts, approvals, today>>
            /\ UNCHANGED editVars

\* set_active_workflow without the test of workflow.client_id
set_active_workflow_any_client(cs, u, c, w) ==
    IF cs[c].user_id # u THEN [clients |-> cs, err |-> "Unauthorized"]
    ELSE [clients |-> [cs EXCEPT ![c].active_workflow_id = w], err |-> "ok"]

\* set_active_workflow(client_id, workflow_id) for the session user u: the client
\* rows it commits and how it answers; workflow_id 0 is NoWorkflow
set_active_workflow(cs, u, c, w) ==
    IF cs[c].user_id # u THEN [clients |-> cs, err |-> "Unauthorized"]
    ELSE IF w = NoWorkflow
         THEN [clients |-> [cs EXCEPT ![c].active_workflow_id = NoWorkflow], err |-> "ok"]
    ELSE IF workflows[w].client_id # c THEN [clients |-> cs, err |-> "WrongClient"]
    ELSE [clients |-> [cs EXCEPT ![c].active_workflow_id = w], err |-> "ok"]

\* POST /set_active_workflow/<client_id>/<workflow_id>
SetActiveWorkflow(u, c, w) ==
    /\ w = NoWorkflow \/ w \in DOMAIN workflows
    /\ LET answer == set_active_workflow(clients, u, c, w)
       IN  /\ clients' = answer.clients
           /\ result' = Outcome("setActiveWorkflow", answer.err, NoPost, u)
    /\ UNCHANGED <<workflows, posts, approvals, today>>
    /\ UNCHANGED editVars

\* The calendar date moves on
NextDay ==
    /\ today < MaxDay
    /\ today' = today + 1
    /\ result' = Outcome("nextDay", "ok", NoPost, NoUser)
    /\ UNCHANGED <<clients, workflows, posts, approvals>>
    /\ UNCHANGED editVars

\* apply_workflow(post, post.client.active_workflow) called on a stored post
ApplyWorkflow(p) ==
    /\ p \in DOMAIN posts
    /\ LET committed == Session(posts, approvals, clients)
           wf == clients[posts[p].client_id].active_workflow_id
           final == AfterRequest(committed, apply_workflow(committed, p, wf))
       IN  /\ posts' = final.posts
           /\ approvals' = final.approvals
           /\ clients' = final.clients
           /\ result' = Outcome("applyWorkflow", final.err, p, NoUser)
    /\ UNCHANGED <<workflows, today>>
    /\ UNCHANGED editVars

---------------------------------------------------------------------------
(* Revisions and the edit handlers *)

MaxRevisions == 2

MaxRequests == 2

\* A form field the request does not carry
AbsentField == "<absent>"

\* Post.create_revision with every column but schedule_date
create_revision_no_date(revs, p, post, u) ==
    Append(revs, [post_id |-> p, content |-> post.content, caption |-> post.caption,
                  file_path |-> post.file_path, schedule_date |-> NoneDate,
                  revised_by_id |-> u])

\* Post.create_revision: a PostRevision of the post's columns is added and committed
create_revision(revs, p, post, u) ==
    Append(revs, [post_id |-> p, content |-> post.content, caption |-> post.caption,
                  file_path |-> post.file_path, schedule_date |-> post.schedule_date,
                  revised_by_id |-> u])

\* edit_post from the form fields to the commit, on the post as the session holds it:
\* the post with the assignments made so far, and how the handler left
EditFields(post, form) ==
    LET p1 == [post EXCEPT !.content = IF form.content = AbsentField THEN @ ELSE form.content,
                           !.caption = IF form.caption = AbsentField THEN @ ELSE form.caption]
        sd == IF form.schedule_date # ""
              THEN strptime(form.schedule_date)
              ELSE [err |-> "ok", date |-> NoneDate]
        p2 == [p1 EXCEPT !.schedule_date = sd.date]
        p3 == IF form.file # AbsentUpload /\ form.file # <<>> /\ allowed_file(form.file)
              THEN [p2 EXCEPT !.file_path = UploadPath(form.file)]
              ELSE p2
    IN  IF sd.err # "ok" THEN [post |-> p1, err |-> "InvalidDate"]
        ELSE [post |-> p3, err |-> "ok"]

\* EditCommit when the session's assignments outlive a request that did not commit
EditCommitKeepsSession(post, edited) == edited.post

\* The stored post after the request: the session's post when db.session.commit()
\* was reached, the stored one when the handler returned before it
EditCommit(post, edited) == IF edited.err = "ok" THEN edited.post ELSE post

\* The edit requests in flight are those that committed their revision; each holds
\* the row it added (its place in the table)
EditRequest(r, u, p, form, rev) ==
    [req |-> r, user |-> u, post |-> p, form |-> form, revision |-> rev]

\* POST /post/<post_id>/edit up to the commit in create_revision
EditBegin(r, u, p, form) ==
    /\ Len(revisions) < MaxRevisions
    /\ \A e \in edits : e.req # r
    /\ IF clients[posts[p].client_id].user_id # u
       THEN Fail("editPost", "Unauthorized", p, u)
       ELSE /\ revisions' = create_revision(revisions, p, posts[p], u)
            /\ edits' = edits \cup {EditRequest(r, u, p, form, Len(revisions'))}
            /\ result' = Outcome("create_revision", "ok", p, u)
            /\ UNCHANGED <<clients, workflows, posts, approvals, today>>

\* POST /post/<post_id>/edit after the commit in create_revision
EditFinish(e) ==
    /\ e \in edits
    /\ LET edited == EditFields(posts[e.post], e.form)
       IN  /\ posts' = [posts EXCEPT ![e.post] = EditCommit(@, edited)]
           /\ result' = Outcome("editPost", edited.err, e.post, e.user)
    /\ edits' = edits \ {e}
    /\ UNCHANGED <<clients, workflows, approvals, today, revisions>>

\* The names the module binds at its top level that the handlers below look up
GlobalNames == {"Flask", "render_template", "request", "redirect", "url_for", "flash",
                "session", "jsonify", "db", "Post", "User", "Client", "Workflow", "json"}

NameLookup(name) == IF name \in GlobalNames THEN "ok" ELSE "NameError"

\* POST /post/<post_id>/update: the argument current_user is looked up before the call
UpdatePost(p) ==
    IF NameLookup("current_user") # "ok"
    THEN Fail("updatePost", NameLookup("current_user"), p, NoUser)
    ELSE /\ revisions' = create_revision(revisions, p, posts[p], NoUser)
         /\ result' = Outcome("updatePost", "ok", p, NoUser)
         /\ UNCHANGED <<clients, workflows, posts, approvals, today, edits>>

\* GET /load_workflow/<workflow_id>
LoadWorkflow(u, w) ==
    /\ w \in DOMAIN workflows
    /\ IF clients[workflows[w].client_id].user_id # u
       THEN IF NameLookup("abort") # "ok"
            THEN Fail("loadWorkflow", NameLookup("abort"), NoPost, u)
            ELSE Fail("loadWorkflow", "Unauthorized", NoPost, u)
       ELSE Fail("loadWorkflow", "ok", NoPost, u)

---------------------------------------------------------------------------
(* The specification: one client of user 1, with any set of approvers *)

NewClient(owner, us) == [user_id |-> owner, approvers |-> us, active_workflow_id |-> NoWorkflow]

Init ==
    /\ \E us \in SUBSET UserIds : clients = <<NewClient(1, us)>>
    /\ workflows = <<>>
    /\ posts = <<>>
    /\ approvals = <<>>
    /\ revisions = <<>>
    /\ edits = {}
    /\ today = ProcessStartDay
    /\ result = Outcome("init", "ok", NoPost, NoUser)

Contents == {"hello"}

Captions == {NoneText}

ScheduleTexts == {"", "2024-01-01", "2024-01-02", "tomorrow"}

Uploads == {AbsentUpload, <<"a", ".", "P", "N", "G">>, <<"a", ".", "e", "x", "e">>}

Decisions == {"approve", "reject"}

Next ==
    \/ \E u \in UserIds, c \in DOMAIN clients, content \in Contents, caption \in Captions,
          sd \in ScheduleTexts, f \in Uploads : CreatePost(u, c, content, caption, sd, f)
    \/ \E u \in UserIds, p \in DOMAIN posts, a \in Decisions : RecordApproval(u, p, a)
    \/ \E p \in DOMAIN posts : QueuePost(p)
    \/ \E p \in DOMAIN posts : PostNow(p)
    \/ \E u \in UserIds, c \in DOMAIN clients, d \in Designs : SaveWorkflow(u, c, d)
    \/ \E u \in UserIds, c \in DOMAIN clients, w \in {NoWorkflow} \cup DOMAIN workflows :
          SetActiveWorkflow(u, c, w)
    \/ NextDay

Spec == Init /\ [][Next]_vars

---------------------------------------------------------------------------
(* The specification of the edits: a client of user 1, whose posts are edited *)
(* by requests that run side by side                                         *)

InitEdit ==
    /\ clients = <<NewClient(1, {2})>>
    /\ workflows = <<>>
    /\ posts = <<>>
    /\ approvals = <<>>
    /\ revisions = <<>>
    /\ edits = {}
    /\ today = ProcessStartDay
    /\ result = Outcome("init", "ok", NoPost, NoUser)

Requests == 1 .. MaxRequests

EditContents == {"one", "two"}

EditCaptions == {AbsentField}

EditScheduleTexts == {"", "2024-01-02", "soon"}

Forms == [content : EditContents, caption : EditCaptions,
          schedule_date : EditScheduleTexts, file : Uploads]

EditDesigns == {JsonList(<<AssignComp(<<"alice">>)>>)}

NextEdit ==
    \/ \E u \in UserIds, c \in DOMAIN clients, sd \in {"", "2024-01-01"} :
          CreatePost(u, c, "hello", NoneText, sd, AbsentUpload)
    \/ \E r \in Requests, u \in UserIds, p \in DOMAIN posts, form \in Forms :
          EditBegin(r, u, p, form)
    \/ \E e \in edits : EditFinish(e)
    \/ \E p \in DOMAIN posts : UpdatePost(p)
    \/ \E u \in UserIds, c \in DOMAIN clients, d \in EditDesigns : SaveWorkflow(u, c, d)
    \/ \E u \in UserIds, c \in DOMAIN clients, w \in {NoWorkflow} \cup DOMAIN workflows :
          SetActiveWorkflow(u, c, w)
    \/ \E u \in UserIds, w \in DOMAIN workflows : LoadWorkflow(u, w)

SpecEdit == InitEdit /\ [][NextEdit]_vars

---------------------------------------------------------------------------
(* The specification of the engine: workflows whose components are of every *)
(* kind, applied to posts in every status                                   *)

EngineDesigns ==
    { JsonList(<<Action("Queue Post", <<>>), Action("Post Now", <<>>)>>),
      JsonList(<<Action("Post Now", <<>>), Action("Queue Post", <<>>), Trigger("Post Now")>>),
      JsonList(<<Action("Notify", <<>>), AssignComp(<<"bob">>), Trigger("Post Approved"),
                 Action("Queue Post", <<>>)>>),
      JsonList(<<AssignComp(<<"alice">>), Action("Archive", <<>>)>>),
      JsonList(<<[type |-> "condition", name |-> "Assign Approvers",
                  options |-> <<Opt("approvers", <<"bob">>)>>],
                 Action("Assign Approvers", <<>>), Trigger("Post Approved")>>),
      JsonList(<<Action("Notify", <<>>), DeadlineComp("3"), Action("Queue Post", <<>>)>>) }

NextEngine ==
    \/ \E u \in UserIds, c \in DOMAIN clients :
          CreatePost(u, c, "hello", NoneText, "", AbsentUpload)
    \/ \E u \in UserIds, p \in DOMAIN posts, a \in Decisions : RecordApproval(u, p, a)
    \/ \E p \in DOMAIN posts : ApplyWorkflow(p)
    \/ \E u \in UserIds, c \in DOMAIN clients, d \in EngineDesigns : SaveWorkflow(u, c, d)
    \/ \E u \in UserIds, c \in DOMAIN clients, w \in {NoWorkflow} \cup DOMAIN workflows :
          SetActiveWorkflow(u, c, w)

SpecEngine == Init /\ [][NextEngine]_vars

---------------------------------------------------------------------------
(* The specification of the workflow settings: two clients, of any owners, *)
(* whose workflows are saved and made active                               *)

InitWorkflow ==
    /\ \E o1, o2 \in UserIds : clients = <<NewClient(o1, {}), NewClient(o2, {})>>
    /\ workflows = <<>>
    /\ posts = <<>>
    /\ approvals = <<>>
    /\ revisions = <<>>
    /\ edits = {}
    /\ today = ProcessStartDay
    /\ result = Outcome("init", "ok", NoPost, NoUser)

NextWorkflow ==
    \/ \E u \in UserIds, c \in DOMAIN clients, d \in Designs : SaveWorkflow(u, c, d)
    \/ \E u \in UserIds, c \in DOMAIN clients, w \in {NoWorkflow} \cup DOMAIN workflows :
          SetActiveWorkflow(u, c, w)

SpecWorkflow == InitWorkflow /\ [][NextWorkflow]_vars

---------------------------------------------------------------------------
(* Properties *)

Rank(status) ==
    CASE status = "draft" -> 0 [] status = "pending" -> 1 [] status = "approved" -> 2
      [] status = "queued" -> 3 [] status = "posted" -> 4

AtLeastApproved == {"approved", "queued", "posted"}

ApprovalsOf(rows, p) == {i \in DOMAIN rows : rows[i].post_id = p}

RowsOf(rows, p, u) == {i \in DOMAIN rows : rows[i].post_id = p /\ rows[i].user_id = u}

\* The exceptions that undecodable or incomplete components raise
WorkflowMalformed == {"KeyError", "TypeError"}

ActiveComponents(c) ==
    IF clients[c].active_workflow_id = NoWorkflow THEN JsonList(<<>>)
    ELSE workflows[clients[c].active_workflow_id].components

\* C1: no operation moves a post's status backwards in the order
\* draft < pending < approved < queued < posted.
C1_StatusNeverRegresses ==
    [][\A p \in DOMAIN posts : Rank(posts'[p].status) >= Rank(posts[p].status)]_vars

\* C2 (as stated): for every post, all its Approval rows are approved (zero rows
\* included) if and only if its status is approved, queued or posted.
C2_AllApprovedIffAtLeastApproved ==
    \A p \in DOMAIN posts :
        AllApproved(approvals, p) <=> posts[p].status \in AtLeastApproved

\* C2 (amended): a pending post reaches approved, queued or posted only in an
\* operation after which every Approval row the post had before it is approved,
\* and the post had at least one.
C2_LeavesPendingOnlyWhenAllApproved ==
    [][\A p \in DOMAIN posts :
          (posts[p].status = "pending" /\ posts'[p].status \in AtLeastApproved)
          => /\ ApprovalsOf(approvals, p) # {}
             /\ \A i \in ApprovalsOf(approvals, p) : approvals'[i].status = "approved"]_vars

C2_Witness ==
    \E p \in DOMAIN posts :
        /\ result.op = "recordApproval" /\ result.post = p /\ result.err = "ok"
        /\ posts[p].status = "approved"
        /\ Cardinality(ApprovalsOf(approvals, p)) = 2
        /\ AllApproved(approvals, p)

\* C3: there is at most one Approval row for each (post, user) pair.
C3_OneApprovalPerPostAndUser ==
    \A i, j \in DOMAIN approvals :
        (approvals[i].post_id = approvals[j].post_id
            /\ approvals[i].user_id = approvals[j].user_id) => i = j

\* "Assign Approvers" has run twice for bob on the same post: at createPost, and
\* again from the Post Approved trigger when bob, the only approver, approved
C3_Witness ==
    /\ result.op = "recordApproval" /\ result.err = "ok" /\ result.user = 2
    /\ ActiveComponents(1) = JsonList(<<Trigger("Post Approved"), AssignComp(<<"bob">>)>>)
    /\ posts[result.post].status = "approved"
    /\ Cardinality(RowsOf(approvals, result.post, 2)) = 1

\* C4: createPost on a client with no active workflow adds a pending post with
\* exactly one pending Approval row per user of the client's approver set and
\* none for any other user.
C4_FallbackApprovals ==
    [][(result'.op = "createPost" /\ result'.err = "ok"
          /\ clients[posts'[result'.post].client_id].active_workflow_id = NoWorkflow)
       => LET p == result'.post
              c == posts'[p].client_id
          IN /\ p \notin DOMAIN posts
             /\ posts'[p].status = "pending"
             /\ \A u \in UserIds :
                   Cardinality(RowsOf(approvals', p, u))
                       = IF u \in clients[c].approvers THEN 1 ELSE 0
             /\ \A i \in ApprovalsOf(approvals', p) : approvals'[i].status = "pending"
             /\ \A i \in DOMAIN approvals : approvals'[i] = approvals[i]]_vars

C4_Witness ==
    /\ result.op = "createPost" /\ result.err = "ok"
    /\ clients[1].active_workflow_id = NoWorkflow
    /\ clients[1].approvers = UserIds
    /\ Cardinality(ApprovalsOf(approvals, result.post)) = 2

\* C5: when a recordApproval decision leaves every Approval row of the post
\* approved, the post is approved (or moved on by a workflow action) at the end
\* of that operation.
C5_AllApprovedSetsApproved ==
    [][(result'.op = "recordApproval" /\ result'.err # "NotAnApprover"
          /\ AllApproved(approvals', result'.post))
       => posts'[result'.post].status \in AtLeastApproved]_vars

\* C6: queuePost on a post that is not approved fails with NotApproved and
\* postNow on a post that is not queued fails with NotQueued, both changing
\* nothing; postNow on a queued post sets it to posted.
C6_OperatorGates ==
    [][LET p == result'.post
       IN /\ (result'.op = "queuePost" /\ posts[p].status # "approved")
             => /\ result'.err = "NotApproved"
                /\ UNCHANGED <<clients, workflows, posts, approvals, today>>
          /\ (result'.op = "postNow" /\ posts[p].status # "queued")
             => /\ result'.err = "NotQueued"
                /\ UNCHANGED <<clients, workflows, posts, approvals, today>>
          /\ (result'.op = "postNow" /\ posts[p].status = "queued")
             => /\ result'.err = "ok"
                /\ posts' = [posts EXCEPT ![p].status = "posted"]
                /\ UNCHANGED <<clients, workflows, approvals, today>>]_vars

C6_Witness ==
    \/ result.op = "postNow" /\ result.err = "NotQueued"
                             /\ posts[result.post].status = "approved"
    \/ result.op = "queuePost" /\ result.err = "NotApproved"
                               /\ posts[result.post].status = "posted"

\* C7: for an approved post, queuePost fails with DeadlinePassed and leaves the
\* status approved when schedule_date is set and earlier than today; otherwise
\* it succeeds and sets the status to queued.
C7_DeadlineGate ==
    [][LET p == result'.post
       IN (result'.op = "queuePost" /\ posts[p].status = "approved")
          => IF posts[p].schedule_date # NoneDate /\ posts[p].schedule_date < today
             THEN result'.err = "DeadlinePassed" /\ posts'[p].status = "approved"
             ELSE result'.err = "ok" /\ posts'[p].status = "queued"]_vars

\* A workflow of well-formed "Assign Approvers", "Queue Post" and "Post Now"
\* actions, one of which lists a username of no user
IsAssign(comp) ==
    /\ DOMAIN comp = {"type", "name", "options"}
    /\ comp.type = "action" /\ comp.name = "Assign Approvers"
    /\ Len(comp.options) = 1 /\ comp.options[1].name = "approvers"

IsStatusAction(comp) ==
    /\ DOMAIN comp = {"type", "name", "options"}
    /\ comp.type = "action" /\ comp.name \in {"Queue Post", "Post Now"}

NamesOf(comp) == {comp.options[1].value[k] : k \in DOMAIN comp.options[1].value}

AssignsUnknownUser(components) ==
    /\ components.kind = "list"
    /\ \A k \in DOMAIN components.items :
          IsAssign(components.items[k]) \/ IsStatusAction(components.items[k])
    /\ \E k \in DOMAIN components.items :
          /\ IsAssign(components.items[k])
          /\ \E n \in NamesOf(components.items[k]) : UserByUsername(n) = NoUser

\* The step is a createPost that got as far as applying the active workflow
CreateReachedWorkflow ==
    /\ result'.op = "createPost"
    /\ result'.err \notin {"Unauthorized", "ValueError", "InvalidFileType"}
    /\ clients[1].active_workflow_id # NoWorkflow

\* C8: an "Assign Approvers" username of no user is skipped without error; the
\* known usernames of the list get their membership and pending Approval row and
\* the later components run.
C8_UnknownUsernameSkipped ==
    [][(CreateReachedWorkflow /\ AssignsUnknownUser(ActiveComponents(1)))
       => /\ result'.err = "ok"
          /\ LET p == result'.post
                 items == ActiveComponents(1).items
             IN /\ \A k \in DOMAIN items : IsAssign(items[k]) =>
                      \A n \in NamesOf(items[k]) :
                          UserByUsername(n) # NoUser =>
                              /\ UserByUsername(n) \in clients'[1].approvers
                              /\ Cardinality(RowsOf(approvals', p, UserByUsername(n))) = 1
                /\ IsStatusAction(items[Len(items)]) =>
                      posts'[p].status = IF items[Len(items)].name = "Queue Post"
                                         THEN "queued" ELSE "posted"]_vars

\* A workflow whose last component is a well-formed "Set Deadline" with a days
\* option, after well-formed "Assign Approvers" of known users only
IsDeadline(comp) ==
    /\ DOMAIN comp = {"type", "name", "options"}
    /\ comp.type = "action" /\ comp.name = "Set Deadline"
    /\ Len(comp.options) = 1 /\ comp.options[1].name = "days"

EndsWithDeadline(components) ==
    /\ components.kind = "list" /\ components.items # <<>>
    /\ IsDeadline(components.items[Len(components.items)])
    /\ \A k \in 1 .. (Len(components.items) - 1) :
          /\ IsAssign(components.items[k])
          /\ \A n \in NamesOf(components.items[k]) : UserByUsername(n) # NoUser

\* C9: applying a workflow with a "Set Deadline" action sets schedule_date to
\* created_at's date plus the days option (7 when absent or empty) and the
\* apply completes without error.
C9_SetDeadline ==
    [][(CreateReachedWorkflow /\ EndsWithDeadline(ActiveComponents(1)))
       => /\ result'.err = "ok"
          /\ LET p == result'.post
                 items == ActiveComponents(1).items
                 text == items[Len(items)].options[1].value
             IN posts'[p].schedule_date
                  = posts'[p].created_at + (IF text = "" THEN 7 ELSE IntOf(text).n)]_vars

\* C10: when applying a workflow fails on malformed components, everything
\* committed before the call is as it was: a failed createPost leaves no trace,
\* and a failed recordApproval leaves only the caller's committed decision.
C10_MalformedLeavesCommittedState ==
    [][result'.err \in WorkflowMalformed
       => /\ workflows' = workflows /\ posts' = posts /\ clients' = clients
          /\ result'.op = "createPost" => approvals' = approvals
          /\ result'.op = "recordApproval" =>
                /\ Len(approvals') = Len(approvals)
                /\ \A i \in DOMAIN approvals :
                      IF i = FirstApproval(approvals, result'.post, result'.user)
                      THEN approvals'[i] = [approvals[i] EXCEPT !.status = "approved"]
                      ELSE approvals'[i] = approvals[i]]_vars

\* A recordApproval that re-invoked the engine, which queued the post and then
\* met a component without a type
C10_Witness ==
    /\ result.op = "recordApproval" /\ result.err = "KeyError"
    /\ ActiveComponents(1) = JsonList(<<AssignComp(<<"alice">>), Action("Queue Post", <<>>),
                                        [name |-> "Post Approved"]>>)
    /\ AllApproved(approvals, result.post)
    /\ posts[result.post].status = "pending"

---------------------------------------------------------------------------
(* Properties of the edits *)

\* The edit requests that took their snapshot in this step, and those that ended in it
Begun == edits' \ edits

Ended == edits \ edits'

Snapshot(p, post, u) ==
    [post_id |-> p, content |-> post.content, caption |-> post.caption,
     file_path |-> post.file_path, schedule_date |-> post.schedule_date,
     revised_by_id |-> u]

\* C11: every editPost that passes the ownership check appends exactly one
\* PostRevision, whose content, caption, media reference and schedule_date are
\* the post's values immediately before the edit and whose revised_by is the
\* editor; no operation changes or removes an existing PostRevision, so the
\* revision list only grows.
C11_OneRevisionPerEdit ==
    [][/\ Len(revisions') >= Len(revisions)
       /\ \A i \in DOMAIN revisions : revisions'[i] = revisions[i]
       /\ \A e \in Begun :
             /\ Len(revisions') = Len(revisions) + 1
             /\ revisions'[Len(revisions')] = Snapshot(e.post, posts[e.post], e.user)
             /\ e.user = clients[posts[e.post].client_id].user_id
       /\ Begun = {} => revisions' = revisions]_vars

C11_Witness ==
    /\ Len(revisions) = 2
    /\ edits = {}
    /\ revisions[1].content = "hello" /\ revisions[1].schedule_date = 0
    /\ revisions[2].content = "one" /\ revisions[2].schedule_date = NoneDate
    /\ result.op = "editPost" /\ result.err = "ok"

\* The edit's schedule_date text is not a date
DateRejected(form) == form.schedule_date # "" /\ strptime(form.schedule_date).err # "ok"

\* C12: an editPost whose schedule_date string is not a valid date fails with
\* InvalidDate and leaves the post's content, caption, media reference,
\* schedule_date and status as they were, while the revision snapshot written
\* before the validation stays stored.
C12_InvalidDateKeepsPost ==
    [][\A e \in Ended :
          DateRejected(e.form)
          => /\ result' = Outcome("editPost", "InvalidDate", e.post, e.user)
             /\ posts'[e.post].content = posts[e.post].content
             /\ posts'[e.post].caption = posts[e.post].caption
             /\ posts'[e.post].file_path = posts[e.post].file_path
             /\ posts'[e.post].schedule_date = posts[e.post].schedule_date
             /\ posts'[e.post].status = posts[e.post].status
             /\ revisions' = revisions
             /\ \E i \in DOMAIN revisions' :
                   /\ revisions'[i].post_id = e.post
                   /\ revisions'[i].revised_by_id = e.user]_vars

C12_Witness ==
    /\ result.op = "editPost" /\ result.err = "InvalidDate"
    /\ posts[result.post].content = "hello"
    /\ posts[result.post].schedule_date = 0
    /\ Len(revisions) = 1
    /\ revisions[1] = Snapshot(result.post, posts[result.post], result.user)
    /\ edits = {}

OwnerOnlyOps == {"createPost", "editPost", "saveWorkflow", "setActiveWorkflow", "loadWorkflow"}

\* C13: createPost, editPost, saveWorkflow, setActiveWorkflow and loadWorkflow
\* each fail with Unauthorized for a caller who does not own the client, and
\* leave posts, revisions, workflows and the active workflow unchanged.
C13_NonOwnerUnauthorized ==
    [][(/\ result'.op \in OwnerOnlyOps
        /\ \A c \in DOMAIN clients : clients[c].user_id # result'.user)
       => /\ result'.err = "Unauthorized"
          /\ UNCHANGED <<posts, revisions, workflows, clients>>]_vars

\* C19: an editPost that uploads a file whose extension is not one of png,
\* jpg, jpeg, gif, mp4 fails with InvalidFileType and leaves the post's media
\* reference unchanged.
C19_EditRejectsFileType ==
    [][\A e \in Ended :
          (/\ ~DateRejected(e.form)
           /\ e.form.file # AbsentUpload
           /\ ~allowed_file(e.form.file))
          => /\ result' = Outcome("editPost", "InvalidFileType", e.post, e.user)
             /\ posts'[e.post].file_path = posts[e.post].file_path]_vars

\* C20: when two editPost calls on the same post interleave (each takes its
\* snapshot, then applies and commits its new fields), the last writer's
\* fields are the post's final fields, and every revision records the field
\* values the post held immediately before the mutation of the edit that
\* created it, so that no committed value of the post is missing from its
\* history.
C20_RevisionIsValueBeforeMutation ==
    [][\A e \in Ended :
          result'.err = "ok"
          => /\ posts'[e.post].content = e.form.content
             /\ posts'[e.post].schedule_date = strptime(e.form.schedule_date).date
             /\ revisions[e.revision] = Snapshot(e.post, posts[e.post], e.user)
             /\ \E i \in DOMAIN revisions' :
                   revisions'[i] = Snapshot(e.post, posts[e.post], e.user)]_vars

---------------------------------------------------------------------------
(* Properties of the decisions *)

\* The caller's row of the post in the step's new state has the given status
CallerRowIs(status) ==
    \E i \in DOMAIN approvals' :
        /\ approvals'[i].post_id = result'.post
        /\ approvals'[i].user_id = result'.user
        /\ approvals'[i].status = status

\* C14: recordApproval by a user who has no Approval row for the post fails
\* with NotAnApprover and changes nothing (no row created or modified, post
\* status unchanged, no workflow applied); a recordApproval by an approver
\* changes the status of only the caller's own Approval row for that post.
C14_OnlyCallersRow ==
    [][result'.op = "recordApproval"
       => LET p == result'.post
              u == result'.user
          IN IF ~ApprovalExists(approvals, p, u)
             THEN /\ result'.err = "NotAnApprover"
                  /\ UNCHANGED <<posts, approvals, clients, workflows>>
             ELSE /\ result'.err # "NotAnApprover"
                  /\ Len(approvals') >= Len(approvals)
                  /\ \A i \in DOMAIN approvals :
                        /\ approvals'[i].post_id = approvals[i].post_id
                        /\ approvals'[i].user_id = approvals[i].user_id
                        /\ (approvals[i].post_id # p \/ approvals[i].user_id # u)
                           => approvals'[i].status = approvals[i].status
                  /\ CallerRowIs("approved") \/ CallerRowIs("rejected")]_vars

C14_Witness ==
    /\ result.op = "recordApproval" /\ result.err = "ok" /\ result.user = 1
    /\ \E i, j \in DOMAIN approvals :
          /\ approvals[i].post_id = result.post /\ approvals[i].user_id = 1
          /\ approvals[i].status = "approved"
          /\ approvals[j].post_id = result.post /\ approvals[j].user_id = 2
          /\ approvals[j].status = "rejected"

\* C15: a reject decision never changes the post's status; a post that is
\* already approved, queued or posted keeps that status though one of its
\* Approval rows is now rejected.
C15_RejectKeepsStatus ==
    [][(result'.op = "recordApproval" /\ CallerRowIs("rejected"))
       => posts'[result'.post].status = posts[result'.post].status]_vars

C15_Witness ==
    /\ result.op = "recordApproval" /\ result.err = "ok"
    /\ posts[result.post].status \in {"queued", "posted"}
    /\ \E i \in DOMAIN approvals :
          /\ approvals[i].post_id = result.post
          /\ approvals[i].user_id = result.user
          /\ approvals[i].status = "rejected"

\* What an action component of the engine can change is as it was before the step
NoWorkflowAction(p) ==
    /\ clients' = clients
    /\ Len(approvals') = Len(approvals)
    /\ posts'[p].schedule_date = posts[p].schedule_date
    /\ posts'[p].status \in {posts[p].status, "approved"}

\* C16: recordApproval re-invokes the workflow engine when, and only when, the
\* decision makes the post transition to approved and the client's active
\* workflow has a component named "Post Approved"; a decision that does not
\* make the post transition to approved (a repeated approve on an approved,
\* queued or posted post included), or one under a workflow without that
\* component or under no active workflow, applies no workflow action.
C16_EngineOnlyOnTransition ==
    [][(result'.op = "recordApproval" /\ result'.err = "ok")
       => LET p == result'.post
              wf == clients[posts[p].client_id].active_workflow_id
              rows == [i \in DOMAIN approvals |-> approvals'[i]]
              transition == /\ posts[p].status \notin AtLeastApproved
                            /\ AllApproved(rows, p)
                            /\ CallerRowIs("approved")
              s1 == Session([posts EXCEPT ![p].status = "approved"], rows, clients)
              applied == apply_workflow(s1, p, wf)
          IN IF transition /\ PostApprovedTrigger(wf) = "yes"
             THEN /\ posts' = applied.posts
                  /\ approvals' = applied.approvals
                  /\ clients' = applied.clients
             ELSE NoWorkflowAction(p)]_vars

---------------------------------------------------------------------------
(* Properties of the engine *)

ActionNames == {"Assign Approvers", "Set Deadline", "Queue Post", "Post Now"}

IsActionNamed(comp, names) ==
    /\ HasKey(comp, "type") /\ comp.type = "action"
    /\ HasKey(comp, "name") /\ comp.name \in names

\* The status after a list of components: that of the last action component named
\* "Queue Post" or "Post Now", the given one when the list has none
StatusAfter(comps, status) ==
    LET I == {i \in DOMAIN comps : IsActionNamed(comps[i], {"Queue Post", "Post Now"})}
        last == CHOOSE i \in I : \A j \in I : j <= i
    IN  IF I = {} THEN status
        ELSE IF comps[last].name = "Queue Post" THEN "queued" ELSE "posted"

\* The workflow a step of createPost, recordApproval or applyWorkflow applied
AppliedWorkflow == clients[posts'[result'.post].client_id].active_workflow_id

\* C17: the engine applies components strictly in list order and only those
\* of type "action": after applyWorkflow the post's status is the one set by
\* the last "Queue Post" (queued) or "Post Now" (posted) action component of
\* the list, whatever the post's prior status and approvals, and is unchanged
\* if the list has neither.
C17_LastStatusActionWins ==
    [][(/\ result'.op \in {"applyWorkflow", "createPost", "recordApproval"}
        /\ result'.post # NoPost
        /\ AppliedWorkflow # NoWorkflow)
       => LET p == result'.post
              comps == workflows[AppliedWorkflow].components.items
          IN /\ result'.op = "applyWorkflow"
                => posts'[p].status = StatusAfter(comps, posts[p].status)
             /\ result'.op = "createPost"
                => posts'[p].status = StatusAfter(comps, "pending")
             /\ (/\ result'.op = "recordApproval"
                 /\ CallerRowIs("approved")
                 /\ AllApproved([i \in DOMAIN approvals |-> approvals'[i]], p)
                 /\ PostApprovedTrigger(AppliedWorkflow) = "yes")
                => posts'[p].status = StatusAfter(comps, "approved")]_vars

IsEffective(comp) == IsActionNamed(comp, ActionNames)

\* C18: applyWorkflow with no workflow (null) returns without error and
\* changes nothing; a component whose type is not "action", or whose name is
\* not one of Assign Approvers, Set Deadline, Queue Post, Post Now, leaves the
\* post, the Approval rows and the client's approver set unchanged while the
\* remaining components are still applied.
C18_OtherComponentsAreNoOps ==
    [][result'.op = "applyWorkflow"
       => LET p == result'.post
              wf == clients[posts[p].client_id].active_workflow_id
              committed == Session(posts, approvals, clients)
              others == AfterRequest(committed,
                           ApplyComponents(committed, p,
                              SelectSeq(workflows[wf].components.items, IsEffective)))
          IN IF wf = NoWorkflow
             THEN /\ result'.err = "ok"
                  /\ UNCHANGED <<posts, approvals, clients, workflows>>
             ELSE /\ result'.err = others.err
                  /\ posts' = others.posts
                  /\ approvals' = others.approvals
                  /\ clients' = others.clients]_vars

C18_Witness ==
    /\ result.op = "applyWorkflow" /\ result.err = "ok"
    /\ posts[result.post].status = "queued"
    /\ clients[posts[result.post].client_id].approvers = {1, 2}
    /\ \E i \in DOMAIN approvals :
          approvals[i].post_id = result.post /\ approvals[i].user_id = 2
    /\ clients[posts[result.post].client_id].active_workflow_id # NoWorkflow
    /\ LET comps == workflows[clients[posts[result.post].client_id].active_workflow_id]
                       .components.items
       IN  /\ Len(comps) = 4
           /\ comps[1] = Action("Notify", <<>>)
           /\ comps[3] = Trigger("Post Approved")

---------------------------------------------------------------------------
(* Properties of the workflow settings *)

\* The saved workflows of client c
WorkflowsOf(c) == {w \in DOMAIN workflows : workflows[w].client_id = c}

\* C21: in every state reached by saveWorkflow and setActiveWorkflow calls,
\* each client's active_workflow_id is null or the id of a saved workflow of
\* that client; setActiveWorkflow by the owner with a workflow of another
\* client fails and leaves the active workflow unchanged, and with workflow
\* id 0 it clears the active workflow.
C21_ActiveWorkflowOfClient ==
    /\ \A c \in DOMAIN clients :
          clients[c].active_workflow_id \in {NoWorkflow} \cup WorkflowsOf(c)
    /\ \A c \in DOMAIN clients, w \in {NoWorkflow} \cup DOMAIN workflows :
          LET answer == set_active_workflow(clients, clients[c].user_id, c, w)
          IN  /\ w \in DOMAIN workflows \ WorkflowsOf(c)
                 => answer.err \notin {"ok"} /\ answer.clients = clients
              /\ w = NoWorkflow
                 => /\ answer.err = "ok"
                    /\ answer.clients = [clients EXCEPT ![c].active_workflow_id = NoWorkflow]

C21_Witness ==
    /\ result.op = "setActiveWorkflow" /\ result.err = "WrongClient"
    /\ \E c, d \in DOMAIN clients :
          /\ clients[c].user_id = result.user
          /\ clients[c].active_workflow_id = NoWorkflow
          /\ clients[d].active_workflow_id \in WorkflowsOf(d)

====
